---- MODULE Spec2Model ----
(***************************************************************************)
(* A model of tophu.multilook (src/src/tophu/multilook.py) and of the      *)
(* helpers it uses from src/src/tophu/util.py.                             *)
(*                                                                         *)
(* One call multilook(arr, nlooks) is a run of the state machine: the      *)
(* inputs are drawn in Init, and each action is one step of the function   *)
(* body, in program order.  An array is a record [shape, data] whose data  *)
(* is the row-major (C order) sequence of its elements; shapes and index   *)
(* tuples are sequences, axes are numbered from 1 (axis i of the model is  *)
(* axis i-1 of the code).  Input elements are integers; a mean is kept as  *)
(* an exact reduced fraction <<numerator, denominator>>.                   *)
(***************************************************************************)
EXTENDS Integers, Sequences, FiniteSets, TLC

VARIABLES
    arr,            \* the input array `arr`
    nlooks,         \* the argument `nlooks` as the caller passed it
    pc,             \* the position in the body of multilook
    nl,             \* the local `nlooks` after normalize_nlooks_tuple (line 129)
    axis,           \* the position of the loop of validate_nlooks (line 80)
    warnings,       \* the warnings emitted so far, in order
    raised,         \* the exception that ended the call, if any
    out_shape,      \* line 134
    valid_shape,    \* line 135
    cropped_arr,    \* line 136
    tmp_shape,      \* line 145
    reshaped_arr,   \* line 146
    out,            \* the returned array (line 148)
    expected        \* the tests' canonical array `expected`, when arr was tiled from one

vars == <<arr, nlooks, pc, nl, axis, warnings, raised, out_shape, valid_shape,
          cropped_arr, tmp_shape, reshaped_arr, out, expected>>

(***************************************************************************)
(* Bounds of the model.                                                    *)
(***************************************************************************)
MaxRank == 3        \* arrays of rank 1..MaxRank
MaxDim == 4         \* extents 0..MaxDim along every axis
MaxSize == 8        \* at most MaxSize elements in an array
MaxLook == 2        \* components -1..MaxLook in an nlooks of the wrong length
MaxRepeat == 3      \* repeat counts 1..MaxRepeat when an array is tiled
MaxTiled == 16      \* at most MaxTiled elements in a tiled array

(***************************************************************************)
(* Arithmetic helpers.                                                     *)
(***************************************************************************)
Min(a, b) == IF a <= b THEN a ELSE b
Max(a, b) == IF a >= b THEN a ELSE b
Abs(a) == IF a < 0 THEN -a ELSE a

RECURSIVE GCD(_, _)
GCD(a, b) == IF b = 0 THEN a ELSE GCD(b, a % b)

\* The exact value s / c (c > 0) as a reduced fraction.
Frac(s, c) == LET g == GCD(Abs(s), c) IN <<s \div g, c \div g>>

RECURSIVE Prod(_)
Prod(s) == IF s = <<>> THEN 1 ELSE Head(s) * Prod(Tail(s))

(***************************************************************************)
(* Row-major indexing of an array of a given shape: idx is a tuple of      *)
(* 0-based indices, a flat index is 0-based too.                           *)
(***************************************************************************)
RECURSIVE RavelUpTo(_, _, _)
RavelUpTo(shape, idx, n) ==
    IF n = 0 THEN 0 ELSE RavelUpTo(shape, idx, n - 1) * shape[n] + idx[n]

Ravel(shape, idx) == RavelUpTo(shape, idx, Len(shape))

Stride(shape, i) == Prod(SubSeq(shape, i + 1, Len(shape)))

Unravel(shape, flat) ==
    [i \in 1..Len(shape) |-> (flat \div Stride(shape, i)) % shape[i]]

At(a, idx) == a.data[Ravel(a.shape, idx) + 1]

NoArray == [shape |-> <<>>, data |-> <<>>]

(***************************************************************************)
(* util.py                                                                 *)
(***************************************************************************)
iseven(n) == n % 2 = 0

LengthMismatchSequences(l1, l2) ==
    [kind |-> "length mismatch: sequence lengths must be equal", got |-> <<l1, l2>>]

\* interleave(s1, s2): [ok, value] on success, [ok, error] when it raises.
interleave(s1, s2) ==
    IF Len(s1) # Len(s2)
    THEN [ok |-> FALSE, error |-> LengthMismatchSequences(Len(s1), Len(s2))]
    ELSE [ok |-> TRUE,
          value |-> [p \in 1..(2 * Len(s1)) |->
                        IF p % 2 = 1 THEN s1[(p + 1) \div 2] ELSE s2[p \div 2]]]

(***************************************************************************)
(* The array operations multilook asks of its array library, on row-major  *)
(* arrays.                                                                 *)
(***************************************************************************)
\* Faulty variant: the quotient rounded up, as util.ceil_divide rounds it.
FloorDivide_Ceil(m, n) ==
    IF n > 0 THEN (m + n - 1) \div n
    ELSE IF n = 0 THEN 0
    ELSE -(m \div (-n))

\* np.floor_divide on integers: the floor of m / n (0 where n = 0).
FloorDivide(m, n) ==
    IF n > 0 THEN m \div n
    ELSE IF n = 0 THEN 0
    ELSE -((m + (-n) - 1) \div (-n))

\* The length of range(m)[slice(n)], that is of [0:n] on an axis of extent m.
SliceLen(n, m) == IF n >= 0 THEN Min(n, m) ELSE Max(m + n, 0)

\* Faulty variant: the leading elements of the flat array instead of the leading
\* elements of every axis.
Crop_Flat(a, stops) ==
    LET shape == [i \in 1..Len(a.shape) |-> SliceLen(stops[i], a.shape[i])]
    IN [shape |-> shape, data |-> [f \in 1..Prod(shape) |-> a.data[f]]]

\* arr[tuple(slice(n) for n in stops)]: the leading stops[i] elements of axis i.
Crop(a, stops) ==
    LET shape == [i \in 1..Len(a.shape) |-> SliceLen(stops[i], a.shape[i])]
    IN [shape |-> shape,
        data |-> [f \in 1..Prod(shape) |-> At(a, Unravel(shape, f - 1))]]

CannotReshape(size, shape) ==
    [kind |-> "cannot reshape array", size |-> size, shape |-> shape]

\* a.reshape(shape): the same elements in row-major order under a new shape;
\* it raises when the new shape holds another number of elements.
Reshape(a, shape) ==
    IF Prod(shape) # Len(a.data) \/ \E i \in 1..Len(shape) : shape[i] < 0
    THEN [ok |-> FALSE, error |-> CannotReshape(Len(a.data), shape)]
    ELSE [ok |-> TRUE, value |-> [shape |-> shape, data |-> a.data]]

\* tuple(np.ogrid[1:ndim:2]): the axes 1, 3, 5, ... of the code, which are the
\* axes 2, 4, 6, ... of the model.
ReducedAxes(ndim) == {p \in 1..ndim : p % 2 = 0}

\* The axes of 1..n that are in (or not in) a set, in increasing order.
RECURSIVE AxesIn(_, _)
AxesIn(n, S) ==
    IF n = 0 THEN <<>>
    ELSE IF n \in S THEN Append(AxesIn(n - 1, S), n) ELSE AxesIn(n - 1, S)

RECURSIVE SumData(_, _, _, _, _, _)
\* The sum of a over the indices of the reduced axes 0..r, at index j of the
\* kept axes.
SumData(a, kept, red, rshape, j, r) ==
    IF r < 0 THEN 0
    ELSE LET k == Unravel(rshape, r)
             idx == [p \in 1..Len(a.shape) |->
                        IF \E q \in 1..Len(kept) : kept[q] = p
                        THEN j[CHOOSE q \in 1..Len(kept) : kept[q] = p]
                        ELSE k[CHOOSE q \in 1..Len(red) : red[q] = p]]
         IN At(a, idx) + SumData(a, kept, red, rshape, j, r - 1)

\* Faulty variant: the sum over the reduced axes, not divided.
Mean_Sum(a, axes) ==
    LET n == Len(a.shape)
        kept == AxesIn(n, (1..n) \ axes)
        red == AxesIn(n, axes)
        kshape == [q \in 1..Len(kept) |-> a.shape[kept[q]]]
        rshape == [q \in 1..Len(red) |-> a.shape[red[q]]]
    IN [shape |-> kshape,
        data |-> [f \in 1..Prod(kshape) |->
                    Frac(SumData(a, kept, red, rshape, Unravel(kshape, f - 1),
                                 Prod(rshape) - 1), 1)]]

\* da.mean(a, axis=axes): the sum over the reduced axes divided by the number
\* of elements summed; the kept axes stay in order.
Mean(a, axes) ==
    LET n == Len(a.shape)
        kept == AxesIn(n, (1..n) \ axes)
        red == AxesIn(n, axes)
        kshape == [q \in 1..Len(kept) |-> a.shape[kept[q]]]
        rshape == [q \in 1..Len(red) |-> a.shape[red[q]]]
        count == Prod(rshape)
    IN [shape |-> kshape,
        data |-> [f \in 1..Prod(kshape) |->
                    IF count = 0 THEN <<0, 0>>   \* the mean of nothing: nan
                    ELSE Frac(SumData(a, kept, red, rshape,
                                      Unravel(kshape, f - 1), count - 1), count)]]

(***************************************************************************)
(* normalize_nlooks_tuple.  The argument is [kind |-> "int", val |-> <<n>>]*)
(* for an integer n and [kind |-> "seq", val |-> ns] for a tuple or list   *)
(* of integers: int() of the first returns n, int() of the second raises   *)
(* TypeError, and int(n) of an integer component is n.                     *)
(***************************************************************************)
NoError == [kind |-> "none"]

LengthMismatch(len, ndim) ==
    [kind |-> "length mismatch: length of nlooks must match input array rank",
     len |-> len, rank |-> ndim]

\* Faulty variant: an integer nlooks is applied to the first axis only.
normalize_nlooks_tuple_FirstAxis(nlooks_arg, ndim) ==
    IF nlooks_arg.kind = "int"
    THEN [ok |-> TRUE, value |-> [i \in 1..ndim |-> IF i = 1 THEN nlooks_arg.val[1] ELSE 1]]
    ELSE IF Len(nlooks_arg.val) # ndim
         THEN [ok |-> FALSE, error |-> LengthMismatch(Len(nlooks_arg.val), ndim)]
         ELSE [ok |-> TRUE, value |-> nlooks_arg.val]

\* Faulty variant: only a sequence that is too short is refused.
normalize_nlooks_tuple_ShortOnly(nlooks_arg, ndim) ==
    IF nlooks_arg.kind = "int"
    THEN [ok |-> TRUE, value |-> [i \in 1..ndim |-> nlooks_arg.val[1]]]
    ELSE IF Len(nlooks_arg.val) < ndim
         THEN [ok |-> FALSE, error |-> LengthMismatch(Len(nlooks_arg.val), ndim)]
         ELSE [ok |-> TRUE, value |-> nlooks_arg.val]

\* Faulty variant: an integer nlooks is not repeated ndim times.
normalize_nlooks_tuple_NoRepeat(nlooks_arg, ndim) ==
    IF nlooks_arg.kind = "int"
    THEN [ok |-> TRUE, value |-> <<nlooks_arg.val[1]>>]
    ELSE IF Len(nlooks_arg.val) # ndim
         THEN [ok |-> FALSE, error |-> LengthMismatch(Len(nlooks_arg.val), ndim)]
         ELSE [ok |-> TRUE, value |-> nlooks_arg.val]

normalize_nlooks_tuple(nlooks_arg, ndim) ==
    IF nlooks_arg.kind = "int"
    THEN [ok |-> TRUE, value |-> [i \in 1..ndim |-> nlooks_arg.val[1]]]
    ELSE LET t == [i \in 1..Len(nlooks_arg.val) |-> nlooks_arg.val[i]]
         IN IF Len(t) # ndim
            THEN [ok |-> FALSE, error |-> LengthMismatch(Len(t), ndim)]
            ELSE [ok |-> TRUE, value |-> t]

(***************************************************************************)
(* The call multilook(arr, nlooks) as a record of its state (a frame), and *)
(* each step of its body as a function from frames to frames.              *)
(***************************************************************************)
Frame ==
    [arr |-> arr, nlooks |-> nlooks, pc |-> pc, nl |-> nl, axis |-> axis,
     warnings |-> warnings, raised |-> raised, out_shape |-> out_shape,
     valid_shape |-> valid_shape, cropped_arr |-> cropped_arr,
     tmp_shape |-> tmp_shape, reshaped_arr |-> reshaped_arr, out |-> out]

\* The frame of a call that has not started.
Call(a, nlooks_arg) ==
    [arr |-> a, nlooks |-> nlooks_arg, pc |-> "normalize", nl |-> <<>>, axis |-> 0,
     warnings |-> <<>>, raised |-> NoError, out_shape |-> <<>>,
     valid_shape |-> <<>>, cropped_arr |-> NoArray, tmp_shape |-> <<>>,
     reshaped_arr |-> NoArray, out |-> NoArray]

Raise(f, error) == [f EXCEPT !.pc = "raised", !.raised = error]

LooksTooSmall == [kind |-> "number of looks must be >= 1"]
LooksTooLarge == [kind |-> "number of looks should not exceed array shape"]
EvenWarning == "one or more components of nlooks is even-valued"
RemainderWarning == "input array shape is not an integer multiple of nlooks"

\* multilook, line 129: nlooks = normalize_nlooks_tuple(nlooks, arr.ndim).
NormalizeStep(f) ==
    LET r == normalize_nlooks_tuple(f.nlooks, Len(f.arr.shape))
    IN IF r.ok THEN [f EXCEPT !.pc = "validate", !.nl = r.value, !.axis = 1]
       ELSE Raise(f, r.error)

\* Faulty variant: zero looks pass the first test (n < 0 for n < 1).
ValidateAxisStep_Negative(f) ==
    IF f.axis > Min(Len(f.arr.shape), Len(f.nl))
    THEN [f EXCEPT !.pc = "warn_even"]
    ELSE LET m == f.arr.shape[f.axis]
             n == f.nl[f.axis]
         IN IF n < 0 THEN Raise(f, LooksTooSmall)
            ELSE IF n > m THEN Raise(f, LooksTooLarge)
            ELSE [f EXCEPT !.axis = f.axis + 1]

\* Faulty variant: n < 1 is tested on every axis before n > m is tested on any.
ValidateAxisStep_TwoPass(f) ==
    IF f.axis > Min(Len(f.arr.shape), Len(f.nl))
    THEN [f EXCEPT !.pc = "warn_even"]
    ELSE LET m == f.arr.shape[f.axis]
             n == f.nl[f.axis]
         IN IF \E i \in 1..Min(Len(f.arr.shape), Len(f.nl)) : f.nl[i] < 1
            THEN Raise(f, LooksTooSmall)
            ELSE IF n > m THEN Raise(f, LooksTooLarge)
            ELSE [f EXCEPT !.axis = f.axis + 1]

\* validate_nlooks, lines 80-84: one pair (m, n) of zip(arr.shape, nlooks).
ValidateAxisStep(f) ==
    IF f.axis > Min(Len(f.arr.shape), Len(f.nl))
    THEN [f EXCEPT !.pc = "warn_even"]
    ELSE LET m == f.arr.shape[f.axis]
             n == f.nl[f.axis]
         IN IF n < 1 THEN Raise(f, LooksTooSmall)
            ELSE IF n > m THEN Raise(f, LooksTooLarge)
            ELSE [f EXCEPT !.axis = f.axis + 1]

\* Faulty variant: one warning for every even component.
WarnEvenStep_PerAxis(f) ==
    [f EXCEPT !.pc = "warn_remainder",
              !.warnings = @ \o [q \in 1..Cardinality({i \in 1..Len(f.nl) : iseven(f.nl[i])})
                                    |-> EvenWarning]]

\* validate_nlooks, lines 87-92.
WarnEvenStep(f) ==
    IF \E i \in 1..Len(f.nl) : iseven(f.nl[i])
    THEN [f EXCEPT !.pc = "warn_remainder", !.warnings = Append(@, EvenWarning)]
    ELSE [f EXCEPT !.pc = "warn_remainder"]

\* validate_nlooks, lines 95-100.
WarnRemainderStep(f) ==
    IF \E i \in 1..Min(Len(f.arr.shape), Len(f.nl)) : f.arr.shape[i] % f.nl[i] # 0
    THEN [f EXCEPT !.pc = "crop", !.warnings = Append(@, RemainderWarning)]
    ELSE [f EXCEPT !.pc = "crop"]

\* Faulty variant: the array is not cropped.
CropStep_NoCrop(f) ==
    LET os == [i \in 1..Len(f.arr.shape) |-> FloorDivide(f.arr.shape[i], f.nl[i])]
        vs == [i \in 1..Len(os) |-> os[i] * f.nl[i]]
    IN [f EXCEPT !.pc = "reshape", !.out_shape = os, !.valid_shape = vs,
                 !.cropped_arr = f.arr]

\* multilook, lines 134-136.
CropStep(f) ==
    LET os == [i \in 1..Len(f.arr.shape) |-> FloorDivide(f.arr.shape[i], f.nl[i])]
        vs == [i \in 1..Len(os) |-> os[i] * f.nl[i]]
    IN [f EXCEPT !.pc = "reshape", !.out_shape = os, !.valid_shape = vs,
                 !.cropped_arr = Crop(f.arr, vs)]

\* multilook, lines 145-146.
ReshapeStep(f) ==
    LET t == interleave(f.out_shape, f.nl)
    IN IF ~t.ok THEN Raise(f, t.error)
       ELSE LET r == Reshape(f.cropped_arr, t.value)
            IN IF ~r.ok THEN Raise([f EXCEPT !.tmp_shape = t.value], r.error)
               ELSE [f EXCEPT !.pc = "mean", !.tmp_shape = t.value,
                              !.reshaped_arr = r.value]

\* multilook, lines 147-148.
MeanStep(f) ==
    [f EXCEPT !.pc = "returned",
              !.out = Mean(f.reshaped_arr, ReducedAxes(Len(f.reshaped_arr.shape)))]

Step(f) ==
    CASE f.pc = "normalize" -> NormalizeStep(f)
      [] f.pc = "validate" -> ValidateAxisStep(f)
      [] f.pc = "warn_even" -> WarnEvenStep(f)
      [] f.pc = "warn_remainder" -> WarnRemainderStep(f)
      [] f.pc = "crop" -> CropStep(f)
      [] f.pc = "reshape" -> ReshapeStep(f)
      [] f.pc = "mean" -> MeanStep(f)

Ended(f) == f.pc \in {"returned", "raised"}

\* The frame in which the call of frame f ends.
RECURSIVE Run(_)
Run(f) == IF Ended(f) THEN f ELSE Run(Step(f))

\* What the caller sees of a call that has ended.
Outcome(f) ==
    [returned |-> f.pc = "returned", raised |-> f.raised, warnings |-> f.warnings,
     result |-> f.out]

multilook(a, nlooks_arg) == Outcome(Run(Call(a, nlooks_arg)))

(***************************************************************************)
(* The inputs.                                                             *)
(***************************************************************************)
Shapes ==
    UNION {{s \in [1..r -> 0..MaxDim] : Prod(s) <= MaxSize} : r \in 1..MaxRank}

\* The arrays of a shape: np.arange(size).reshape(shape), as in the tests, the
\* array of zeros, and every array with a single 1 among zeros.  multilook never
\* branches on an element and the mean is linear, so these decide the value of
\* the result on every array of the shape.
ArraysOf(shape) ==
    {[shape |-> shape, data |-> [f \in 1..Prod(shape) |-> f - 1]]}
    \cup {[shape |-> shape, data |-> [f \in 1..Prod(shape) |-> 0]]}
    \cup {[shape |-> shape, data |-> [f \in 1..Prod(shape) |-> IF f = h THEN 1 ELSE 0]]
            : h \in 1..Prod(shape)}

Arrays == UNION {ArraysOf(s) : s \in Shapes}

RECURSIVE MaxOf(_)
MaxOf(s) == IF s = <<>> THEN 0 ELSE Max(Head(s), MaxOf(Tail(s)))

\* The nlooks arguments tried on an array of a shape: every integer and every
\* tuple of the array's rank with components from 1 below the smallest legal
\* value to 1 above the largest, and tuples of every other length.
NlooksFor(shape) ==
    {[kind |-> "int", val |-> <<n>>] : n \in -1..(MaxOf(shape) + 1)}
    \cup {[kind |-> "seq", val |-> ns] :
            ns \in {t \in [1..Len(shape) -> -1..(MaxDim + 1)] :
                      \A i \in 1..Len(shape) : t[i] <= shape[i] + 1}}
    \cup {[kind |-> "seq", val |-> ns] :
            ns \in UNION {[1..l -> -1..MaxLook] : l \in (0..MaxRank) \ {Len(shape)}}}

Started(a, n) ==
    /\ arr = a
    /\ nlooks = n
    /\ pc = "normalize"
    /\ nl = <<>>
    /\ axis = 0
    /\ warnings = <<>>
    /\ raised = NoError
    /\ out_shape = <<>>
    /\ valid_shape = <<>>
    /\ cropped_arr = NoArray
    /\ tmp_shape = <<>>
    /\ reshaped_arr = NoArray
    /\ out = NoArray

\* A call of multilook on any array with any nlooks.
Init ==
    \E a \in Arrays : \E n \in NlooksFor(a.shape) :
        /\ Started(a, n)
        /\ expected = NoArray

\* da.repeat(a, repeats=n, axis=ax): every element n times along axis ax.
RepeatAxis(a, n, ax) ==
    LET shape == [a.shape EXCEPT ![ax] = @ * n]
    IN [shape |-> shape,
        data |-> [f \in 1..Prod(shape) |->
                    At(a, [Unravel(shape, f - 1) EXCEPT ![ax] = @ \div n])]]

\* The tests' input: `for axis, n in enumerate(nlooks): input = da.repeat(...)`,
\* over the axes 1..n.
RECURSIVE RepeatUpTo(_, _, _)
RepeatUpTo(c, k, n) ==
    IF n = 0 THEN c ELSE RepeatAxis(RepeatUpTo(c, k, n - 1), k[n], n)

Tiled(c, k) == RepeatUpTo(c, k, Len(c.shape))

\* The nlooks the tests pass for repeat counts k: the tuple k, or the integer
\* when every count is the same.
NlooksOfRepeats(k) ==
    {[kind |-> "seq", val |-> k]}
    \cup (IF \A i \in 1..Len(k) : k[i] = k[1]
          THEN {[kind |-> "int", val |-> <<k[1]>>]} ELSE {})

\* The tests test_multilook_1d .. test_multilook_complex: a call of multilook on
\* a canonical array tiled by repeat counts k, with nlooks = k.
InitTile ==
    \E c \in Arrays : \E k \in [1..Len(c.shape) -> 1..MaxRepeat] :
        /\ Prod(c.shape) * Prod(k) <= MaxTiled
        /\ \E n \in NlooksOfRepeats(k) : Started(Tiled(c, k), n)
        /\ expected = c

Becomes(f) ==
    /\ arr' = f.arr
    /\ nlooks' = f.nlooks
    /\ pc' = f.pc
    /\ nl' = f.nl
    /\ axis' = f.axis
    /\ warnings' = f.warnings
    /\ raised' = f.raised
    /\ out_shape' = f.out_shape
    /\ valid_shape' = f.valid_shape
    /\ cropped_arr' = f.cropped_arr
    /\ tmp_shape' = f.tmp_shape
    /\ reshaped_arr' = f.reshaped_arr
    /\ out' = f.out
    /\ UNCHANGED expected

Normalize == pc = "normalize" /\ Becomes(NormalizeStep(Frame))
ValidateAxis == pc = "validate" /\ Becomes(ValidateAxisStep(Frame))
WarnEven == pc = "warn_even" /\ Becomes(WarnEvenStep(Frame))
WarnRemainder == pc = "warn_remainder" /\ Becomes(WarnRemainderStep(Frame))
CropArray == pc = "crop" /\ Becomes(CropStep(Frame))
ReshapeArray == pc = "reshape" /\ Becomes(ReshapeStep(Frame))
MeanArray == pc = "mean" /\ Becomes(MeanStep(Frame))

Next ==
    \/ Normalize
    \/ ValidateAxis
    \/ WarnEven
    \/ WarnRemainder
    \/ CropArray
    \/ ReshapeArray
    \/ MeanArray

Spec == Init /\ [][Next]_vars

SpecTile == InitTile /\ [][Next]_vars

(***************************************************************************)
(* Vocabulary of the properties: all of it is about the inputs arr and     *)
(* nlooks of the call, not about the locals of multilook.                  *)
(***************************************************************************)
Rank == Len(arr.shape)

\* nlooks is an integer, or a sequence with one component for each axis.
Matched == nlooks.kind = "int" \/ Len(nlooks.val) = Rank

\* The number of looks asked for along axis i (when Matched).
Looks(i) == IF nlooks.kind = "int" THEN nlooks.val[1] ELSE nlooks.val[i]

Violates(i) == Looks(i) < 1 \/ Looks(i) > arr.shape[i]

\* multilook accepts the input: 1 <= nlooks[i] <= arr.shape[i] on every axis.
Accepted == Matched /\ \A i \in 1..Rank : ~Violates(i)

FirstViolation == CHOOSE i \in 1..Rank : Violates(i) /\ \A j \in 1..(i - 1) : ~Violates(j)

HasEnded == pc \in {"returned", "raised"}

FloorShape == [i \in 1..Rank |-> arr.shape[i] \div Looks(i)]

(***************************************************************************)
(* C1: for every accepted input, the returned array has the rank of the    *)
(* input and the extent floor(arr.shape[i] / nlooks[i]) along every axis   *)
(* i, also where arr.shape[i] is no multiple of nlooks[i].                 *)
(***************************************************************************)
C1_OutputShape ==
    (HasEnded /\ Accepted) =>
        /\ pc = "returned"
        /\ Len(out.shape) = Rank
        /\ \A i \in 1..Rank : out.shape[i] = arr.shape[i] \div Looks(i)
        /\ Len(out.data) = Prod(out.shape)

\* A returned array of rank 2, with a window of several elements along both
\* axes and a remainder along one.
C1_Witness ==
    /\ pc = "returned"
    /\ Rank = 2
    /\ \A i \in 1..Rank : Looks(i) > 1
    /\ \E i \in 1..Rank : arr.shape[i] % Looks(i) # 0

(***************************************************************************)
(* C2: for every accepted input, the element of the result at index j is   *)
(* the arithmetic mean of exactly the input elements at the indices        *)
(* j[i] * nlooks[i] + k[i], 0 <= k[i] < nlooks[i]: the crop, the row-major *)
(* reshape and the mean over the odd axes compute this block mean, and the *)
(* input elements beyond out_shape[i] * nlooks[i] contribute to nothing.   *)
(***************************************************************************)
RECURSIVE BlockSum(_, _)
\* The sum of the input elements j * nlooks + k, over the offsets k numbered 0..r.
BlockSum(j, r) ==
    IF r < 0 THEN 0
    ELSE LET window == [i \in 1..Rank |-> Looks(i)]
             k == Unravel(window, r)
         IN At(arr, [i \in 1..Rank |-> j[i] * Looks(i) + k[i]]) + BlockSum(j, r - 1)

BlockMean(j) ==
    LET count == Prod([i \in 1..Rank |-> Looks(i)])
    IN Frac(BlockSum(j, count - 1), count)

C2_BlockMean ==
    (HasEnded /\ Accepted) =>
        /\ pc = "returned"
        /\ out.shape = FloorShape
        /\ Len(out.data) = Prod(FloorShape)
        /\ \A f \in 1..Len(out.data) : out.data[f] = BlockMean(Unravel(FloorShape, f - 1))

\* A returned array of rank 2 with several elements, each the mean of several
\* different input elements, where remainder elements were dropped.
C2_Witness ==
    /\ pc = "returned"
    /\ Rank = 2
    /\ Len(out.data) > 1
    /\ \E i \in 1..Rank : Looks(i) > 1
    /\ \E i \in 1..Rank : arr.shape[i] % Looks(i) # 0
    /\ \A f, g \in 1..Len(arr.data) : f # g => arr.data[f] # arr.data[g]
    /\ \E f \in 1..Len(out.data) : out.data[f][2] > 1

(***************************************************************************)
(* C3: if tiled is built by repeating each element of a canonical array c  *)
(* k[i] times along axis i, then multilook(tiled, nlooks=k) has the shape  *)
(* of c and every element equal to the corresponding element of c.         *)
(***************************************************************************)
\* An array of integers as the array of the same values as means.
AsMeans(c) == [shape |-> c.shape, data |-> [f \in 1..Len(c.data) |-> <<c.data[f], 1>>]]

\* The claim as stated, for every canonical array.
C3_Original ==
    (HasEnded /\ expected # NoArray) => (pc = "returned" /\ out = AsMeans(expected))

\* The claim for the canonical arrays with no axis of extent 0.
C3_Decimation ==
    (HasEnded /\ expected # NoArray /\ \A i \in 1..Len(expected.shape) : expected.shape[i] >= 1)
        => (pc = "returned" /\ out = AsMeans(expected))

\* A canonical array of rank 3 with different elements, tiled by different
\* repeat counts, and multilooked.
C3_Witness ==
    /\ pc = "returned"
    /\ expected # NoArray
    /\ Len(expected.shape) = 3
    /\ nlooks.kind = "seq"
    /\ \E i, j \in 1..Rank : Looks(i) # Looks(j)
    /\ \E f, g \in 1..Len(expected.data) : expected.data[f] # expected.data[g]
    /\ Len(arr.data) > Len(expected.data)

(***************************************************************************)
(* C4: a scalar nlooks broadcasts to all axes: multilook(arr, n) has the   *)
(* outcome of multilook(arr, (n,) * arr.ndim): the same returned array or  *)
(* the same error, and the same warnings.                                  *)
(***************************************************************************)
Broadcast(n, ndim) == [kind |-> "seq", val |-> [i \in 1..ndim |-> n]]

C4_ScalarBroadcasts ==
    (HasEnded /\ nlooks.kind = "int") =>
        Outcome(Frame) = multilook(arr, Broadcast(nlooks.val[1], Rank))

\* A call with an integer nlooks on an array of rank 2 or more that returned
\* an array and emitted a warning.
C4_Witness ==
    /\ pc = "returned"
    /\ nlooks.kind = "int"
    /\ Rank >= 2
    /\ nlooks.val[1] > 1
    /\ warnings # <<>>

(***************************************************************************)
(* C5: when nlooks is a sequence whose length differs from the array rank, *)
(* multilook fails with the length-mismatch error, which states the length *)
(* and the rank; it is raised before any validation of the window sizes,   *)
(* whatever the components are; no warning is emitted, nothing is returned.*)
(***************************************************************************)
C5_LengthMismatch ==
    (pc # "normalize" /\ ~Matched) =>
        /\ pc = "raised"
        /\ raised = LengthMismatch(Len(nlooks.val), Rank)
        /\ raised.len # raised.rank
        /\ axis = 0
        /\ warnings = <<>>
        /\ out = NoArray

\* The error raised for a sequence that is too long and has a component < 1
\* and a component larger than any extent of the array.
C5_Witness ==
    /\ pc = "raised"
    /\ ~Matched
    /\ Len(nlooks.val) > Rank
    /\ \E i \in 1..Len(nlooks.val) : nlooks.val[i] < 1
    /\ \E i \in 1..Len(nlooks.val) : \A j \in 1..Rank : nlooks.val[i] > arr.shape[j]

(***************************************************************************)
(* C6: multilook fails with "number of looks must be >= 1" whenever nlooks *)
(* (an integer, or a sequence of the array's rank) has a zero or negative  *)
(* component on some axis; no result is returned.                          *)
(***************************************************************************)
\* The claim as stated: whatever the values on the other axes.
C6_Original ==
    (HasEnded /\ Matched /\ \E i \in 1..Rank : Looks(i) < 1) =>
        (pc = "raised" /\ raised = LooksTooSmall /\ out = NoArray)

\* The claim where no axis before the first zero or negative component has a
\* window larger than the extent; with such an axis the other error is raised.
C6_TooSmall ==
    (HasEnded /\ Matched /\ \E i \in 1..Rank : Looks(i) < 1) =>
        /\ pc = "raised"
        /\ out = NoArray
        /\ raised = IF Looks(FirstViolation) < 1 THEN LooksTooSmall ELSE LooksTooLarge

\* The error ">= 1" raised for a sequence whose zero component is not on the
\* first axis.
C6_Witness ==
    /\ pc = "raised"
    /\ raised = LooksTooSmall
    /\ nlooks.kind = "seq"
    /\ Matched
    /\ Looks(1) >= 1
    /\ \E i \in 2..Rank : Looks(i) = 0

(***************************************************************************)
(* C7: for every call that passes validation the warnings emitted are      *)
(* exactly one even-window warning iff some nlooks[i] is even, and one     *)
(* remainder warning iff some arr.shape[i] % nlooks[i] # 0: each at most   *)
(* once, both when both conditions hold, none when neither does; and the   *)
(* result is returned in every case.                                       *)
(***************************************************************************)
SomeEven == \E i \in 1..Rank : Looks(i) % 2 = 0
SomeRemainder == \E i \in 1..Rank : arr.shape[i] % Looks(i) # 0

C7_Warnings ==
    /\ pc \in {"crop", "reshape", "mean", "returned"} =>
          /\ Accepted
          /\ warnings = (IF SomeEven THEN <<EvenWarning>> ELSE <<>>)
                        \o (IF SomeRemainder THEN <<RemainderWarning>> ELSE <<>>)
    /\ (HasEnded /\ Accepted) => pc = "returned"

\* A returned call where two axes have an even window and one has a remainder:
\* one warning of each category.
C7_Witness ==
    /\ pc = "returned"
    /\ Len(warnings) = 2
    /\ Cardinality({i \in 1..Rank : Looks(i) % 2 = 0}) >= 2
    /\ SomeRemainder

(***************************************************************************)
(* C8: whenever normalize_nlooks_tuple(nlooks, ndim) returns, its result   *)
(* is a tuple of exactly ndim positive integers, for a scalar and for a    *)
(* sequence alike.                                                         *)
(***************************************************************************)
\* normalize_nlooks_tuple has returned: the call is past line 129 and did not
\* end there.
NormalizeReturned == pc # "normalize" /\ raised.kind # LengthMismatch(0, 0).kind

\* The claim as stated.
C8_Original ==
    NormalizeReturned => (Len(nl) = Rank /\ \A i \in 1..Len(nl) : nl[i] \in Int /\ nl[i] >= 1)

\* The claim without "positive": the result has ndim integers, the integer
\* nlooks on every axis or the components of the sequence nlooks; they are
\* known to be positive only once validate_nlooks has passed.
C8_Normalized ==
    /\ NormalizeReturned =>
          /\ Matched
          /\ Len(nl) = Rank
          /\ \A i \in 1..Len(nl) : nl[i] \in Int /\ nl[i] = Looks(i)
    /\ pc \in {"warn_even", "warn_remainder", "crop", "reshape", "mean", "returned"} =>
          \A i \in 1..Len(nl) : nl[i] >= 1

\* normalize_nlooks_tuple has returned a tuple for an integer nlooks on an
\* array of rank 3.
C8_Witness ==
    /\ pc = "validate"
    /\ axis = 1
    /\ nlooks.kind = "int"
    /\ Rank = 3
    /\ Len(nl) = 3

(***************************************************************************)
(* C9: the error of validate_nlooks is decided by the lowest axis i that   *)
(* violates 1 <= nlooks[i] <= arr.shape[i]: ">= 1" if nlooks[i] < 1 (also  *)
(* when arr.shape[i] is 0), "should not exceed array shape" otherwise,     *)
(* whatever the later axes; and when it is raised no warning has been      *)
(* emitted.                                                                *)
(***************************************************************************)
C9_FirstViolation ==
    /\ (HasEnded /\ Matched /\ ~Accepted) =>
          /\ pc = "raised"
          /\ axis = FirstViolation
          /\ raised = IF Looks(FirstViolation) < 1 THEN LooksTooSmall ELSE LooksTooLarge
    /\ pc = "raised" => warnings = <<>>
    /\ pc \in {"normalize", "validate"} => warnings = <<>>

\* ">= 1" raised on an axis of extent 0, with a window larger than the extent
\* on a later axis where the window is even and leaves a remainder.
C9_Witness ==
    /\ pc = "raised"
    /\ raised = LooksTooSmall
    /\ Matched
    /\ arr.shape[FirstViolation] = 0
    /\ \E j \in (FirstViolation + 1)..Rank :
          Looks(j) > arr.shape[j] /\ Looks(j) % 2 = 0 /\ arr.shape[j] % Looks(j) # 0

(***************************************************************************)
(* C10: multilook raises iff nlooks is a sequence of another length than   *)
(* the rank, or nlooks[i] < 1 or nlooks[i] > arr.shape[i] on some axis.    *)
(* For every other input the crop, the reshape and the mean raise nothing: *)
(* out_shape[i] >= 1, valid_shape[i] = out_shape[i] * nlooks[i] <=         *)
(* arr.shape[i], the interleaved shape has as many elements as the cropped *)
(* array, and a result is returned.                                        *)
(***************************************************************************)
C10_ErrorIff ==
    /\ HasEnded => (pc = "raised" <=> ~Accepted)
    /\ pc = "raised" => raised.kind \in {LengthMismatch(0, 0).kind, LooksTooSmall.kind,
                                          LooksTooLarge.kind}
    /\ pc \in {"reshape", "mean", "returned"} =>
          /\ Len(out_shape) = Rank /\ Len(valid_shape) = Rank
          /\ \A i \in 1..Rank :
                /\ out_shape[i] >= 1
                /\ valid_shape[i] = out_shape[i] * Looks(i)
                /\ valid_shape[i] <= arr.shape[i]
          /\ cropped_arr.shape = valid_shape
    /\ pc \in {"mean", "returned"} =>
          /\ Len(tmp_shape) = 2 * Rank
          /\ Prod(tmp_shape) = Len(cropped_arr.data)
          /\ reshaped_arr.shape = tmp_shape
    /\ pc = "returned" => out # NoArray

\* A returned array of rank 2 whose input was cropped.
C10_Witness ==
    /\ pc = "returned"
    /\ Rank = 2
    /\ \E i \in 1..Rank : valid_shape[i] < arr.shape[i]
    /\ Len(cropped_arr.data) < Len(arr.data)
    /\ Len(cropped_arr.data) > 1
====
